---- MODULE Spec2Model ----
(***************************************************************************)
(* Model of the WundaSmart climate entity                                  *)
(* (custom_components/wundasmart/climate.py, class Device).                *)
(*                                                                         *)
(* Python values are tagged records: a missing dict key (Absent), None,    *)
(* int, str (a sequence of one-character strings) and float.  A float is   *)
(* kept as an exact reduced fraction n/d; the inputs used here are short   *)
(* decimals, for which the sums, means and ceilings computed by the code   *)
(* are the same as the exact ones.                                         *)
(***************************************************************************)
EXTENDS Integers, Sequences, FiniteSets, TLC

VARIABLES
    data,      \* coordinator.data, restricted to this room and the TRVs
    attrs,     \* the entity's _attr_* fields (the derived climate view)
    pc,        \* position of the command coroutine: idle / send / refresh / done
    call,      \* the command operation in flight or last finished
    params,    \* params handed to send_command by the call (NoParams if none)
    nsent,     \* send_command invocations made by the current call
    nrefresh,  \* async_request_refresh invocations made by the current call
    outcome    \* how the call ended: none / ok / the exception raised

vars == <<data, attrs, pc, call, params, nsent, nrefresh, outcome>>

----------------------------------------------------------------------------
(* Python values *)

Absent == [t |-> "absent"]
None == [t |-> "None"]
IntV(v) == [t |-> "int", v |-> v]
StrV(s) == [t |-> "str", s |-> s]

Abs(n) == IF n < 0 THEN -n ELSE n

RECURSIVE GCD(_, _)
GCD(a, b) == IF b = 0 THEN a ELSE GCD(b, a % b)

\* the float n/d, reduced so that equal numbers are equal records
Float(n, d) ==
    IF n = 0 THEN [t |-> "float", n |-> 0, d |-> 1]
    ELSE LET g == GCD(Abs(n), d) IN [t |-> "float", n |-> n \div g, d |-> d \div g]

\* dict.get(key, default) on a record whose missing keys hold Absent
Get(rec, key, default) == IF rec[key] = Absent THEN default ELSE rec[key]

Ok(v) == [ok |-> TRUE, val |-> v]
Raise(e) == [ok |-> FALSE, err |-> e]

Digits == <<"0", "1", "2", "3", "4", "5", "6", "7", "8", "9">>

IsDigit(c) == \E i \in 1..10 : Digits[i] = c

DigitVal(c) == (CHOOSE i \in 1..10 : Digits[i] = c) - 1

AllDigits(s) == \A i \in 1..Len(s) : IsDigit(s[i])

RECURSIVE DigitsToNat(_)
DigitsToNat(s) ==
    IF s = <<>> THEN 0
    ELSE 10 * DigitsToNat(SubSeq(s, 1, Len(s) - 1)) + DigitVal(s[Len(s)])

RECURSIVE Pow10(_)
Pow10(k) == IF k = 0 THEN 1 ELSE 10 * Pow10(k - 1)

\* str.isdigit()
IsDigitStr(s) == s # <<>> /\ AllDigits(s)

HasSign(s) == s # <<>> /\ s[1] \in {"-", "+"}

Unsigned(s) == IF HasSign(s) THEN Tail(s) ELSE s

SignOf(s) == IF s # <<>> /\ s[1] = "-" THEN -1 ELSE 1

\* int(x)
PyInt(x) ==
    CASE x.t = "int" -> Ok(x.v)
      [] x.t = "float" -> Ok(IF x.n < 0 THEN -((-x.n) \div x.d) ELSE x.n \div x.d)
      [] x.t = "str" ->
            LET u == Unsigned(x.s) IN
            IF IsDigitStr(u) THEN Ok(SignOf(x.s) * DigitsToNat(u)) ELSE Raise("ValueError")
      [] OTHER -> Raise("TypeError")

\* position of the decimal point in s, 0 if there is none
PointAt(s) == IF \E i \in 1..Len(s) : s[i] = "." THEN CHOOSE i \in 1..Len(s) : s[i] = "." ELSE 0

\* float(x); of the text forms only [sign] digits [. digits] is modelled
PyFloat(x) ==
    CASE x.t = "int" -> Ok(Float(x.v, 1))
      [] x.t = "float" -> Ok(x)
      [] x.t = "str" ->
            LET u == Unsigned(x.s)
                p == PointAt(u)
                ip == IF p = 0 THEN u ELSE SubSeq(u, 1, p - 1)
                fp == IF p = 0 THEN <<>> ELSE SubSeq(u, p + 1, Len(u))
            IN  IF AllDigits(ip) /\ AllDigits(fp) /\ Len(ip) + Len(fp) > 0
                THEN Ok(Float(SignOf(x.s) * (DigitsToNat(ip) * Pow10(Len(fp)) + DigitsToNat(fp)),
                              Pow10(Len(fp))))
                ELSE Raise("ValueError")
      [] OTHER -> Raise("TypeError")

\* truth value of a float
Truthy(f) == f.n # 0

\* math.ceil(x): TypeError on None, else the least integer >= x
Ceil(x) ==
    IF x.t = "float" THEN Ok(-((-x.n) \div x.d))
    ELSE IF x.t = "int" THEN Ok(x.v)
    ELSE Raise("TypeError")


\* str(n) for a natural number n
RECURSIVE ToDigits(_)
ToDigits(n) == IF n < 10 THEN <<Digits[n + 1]>> ELSE Append(ToDigits(n \div 10), Digits[(n % 10) + 1])

----------------------------------------------------------------------------
(* Status flags *)

\* a & b for naturals
RECURSIVE BitAnd(_, _)
BitAnd(a, b) ==
    IF a = 0 \/ b = 0 THEN 0
    ELSE 2 * BitAnd(a \div 2, b \div 2) + (IF a % 2 = 1 /\ b % 2 = 1 THEN 1 ELSE 0)

\* flags & mask for a Python int (two's complement of unbounded width) and a
\* mask of at most eight bits
Masked(flags, mask) == BitAnd(flags % 256, mask)

\* mutant: the HEAT test is made before the OFF test
HvacModeOf_HeatFirst(flags) ==
    IF Masked(flags, 144) = 16 THEN "HEAT"
    ELSE IF Masked(flags, 20) = 20 THEN "OFF"
    ELSE "AUTO"

HvacModeOf(flags) ==
    IF Masked(flags, 20) = 20 THEN "OFF"
    ELSE IF Masked(flags, 144) = 16 THEN "HEAT"
    ELSE "AUTO"

\* mutant: no demand is reported as IDLE, as the integer-enum decoding did
HvacActionOf_Idle(flags) ==
    IF Masked(flags, 160) = 160 THEN "PREHEATING"
    ELSE IF Masked(flags, 32) # 0 THEN "HEATING"
    ELSE "IDLE"

\* mutant: the demand bit is tested before the pre-start combination
HvacActionOf_DemandFirst(flags) ==
    IF Masked(flags, 32) # 0 THEN "HEATING"
    ELSE IF Masked(flags, 160) = 160 THEN "PREHEATING"
    ELSE "OFF"

HvacActionOf(flags) ==
    IF Masked(flags, 160) = 160 THEN "PREHEATING"
    ELSE IF Masked(flags, 32) # 0 THEN "HEATING"
    ELSE "OFF"

----------------------------------------------------------------------------
(* The entity *)

MIN_TRV_ID == 31
MAX_TRV_ID == 32
MIN_ROOM_ID == 121

TrvIds == MIN_TRV_ID..MAX_TRV_ID

\* self._wunda_id of the room entity
WundaId == MIN_ROOM_ID + 1

\* the fields set by __init__ before its call of __update_state; hvac_action
\* is not assigned and reads as the base class's unset value
ConstructorAttrs ==
    [current_temperature |-> None,
     target_temperature |-> None,
     current_humidity |-> None,
     hvac_mode |-> "AUTO",
     hvac_action |-> "unset"]

\* whether the generator __trvs yields this TRV
TrvInRoom(trv) ==
    LET room_id == Get(trv, "room_id", None) IN
    /\ room_id # None
    /\ (room_id.t = "int" \/ (room_id.t = "str" /\ IsDigitStr(room_id.s)))
    /\ PyInt(room_id).val + MIN_ROOM_ID = WundaId

\* trv_temps after the loop over the TRVs with ids from..MAX_TRV_ID
RECURSIVE TrvTemps(_, _)
TrvTemps(d, from) ==
    IF from > MAX_TRV_ID THEN <<>>
    ELSE LET trv == d.trvs[from]
             r == PyFloat(Get(trv, "vtemp", IntV(0)))
             rest == TrvTemps(d, from + 1)
         IN  IF TrvInRoom(trv) /\ r.ok /\ Truthy(r.val) THEN <<r.val>> \o rest ELSE rest

RECURSIVE FSum(_)
FSum(fs) ==
    IF fs = <<>> THEN Float(0, 1)
    ELSE LET a == Head(fs)
             b == FSum(Tail(fs))
         IN  Float(a.n * b.d + b.n * a.d, a.d * b.d)

\* sum(trv_temps) / len(trv_temps)
Mean(fs) == LET s == FSum(fs) IN Float(s.n, s.d * Len(fs))

\* mutant: a sensor temp that does not parse falls through to the TRVs
SetCurrentTemperature_FallThrough(a, d) ==
    LET temp == Get(d.sensor_state, "temp", None)
        r == IF temp # None THEN PyFloat(temp) ELSE Raise("TypeError")
        trv_temps == TrvTemps(d, MIN_TRV_ID)
    IN  IF r.ok THEN [a EXCEPT !.current_temperature = r.val]
        ELSE IF trv_temps # <<>> THEN [a EXCEPT !.current_temperature = Mean(trv_temps)]
        ELSE a

SetCurrentTemperature(a, d) ==
    LET temp == Get(d.sensor_state, "temp", None) IN
    IF temp # None
    THEN LET r == PyFloat(temp) IN
         IF r.ok THEN [a EXCEPT !.current_temperature = r.val] ELSE a
    ELSE LET trv_temps == TrvTemps(d, MIN_TRV_ID) IN
         IF trv_temps # <<>> THEN [a EXCEPT !.current_temperature = Mean(trv_temps)] ELSE a

SetCurrentHumidity(a, d) ==
    LET rh == Get(d.sensor_state, "rh", None) IN
    IF rh # None
    THEN LET r == PyFloat(rh) IN
         IF r.ok THEN [a EXCEPT !.current_humidity = r.val] ELSE a
    ELSE a

SetTargetTemperature(a, d) ==
    LET temp == Get(d.state, "temp", None) IN
    IF temp # None
    THEN LET r == PyFloat(temp) IN
         IF r.ok THEN [a EXCEPT !.target_temperature = r.val] ELSE a
    ELSE a

\* mutant: an action of OFF is not written
SetHvacState_SkipActionOff(a, d) ==
    LET temp_pre == Get(d.state, "temp_pre", None)
        r == IF temp_pre # None THEN PyInt(temp_pre) ELSE Raise("TypeError")
    IN  IF ~r.ok THEN a
        ELSE IF HvacActionOf(r.val) = "OFF" THEN [a EXCEPT !.hvac_mode = HvacModeOf(r.val)]
        ELSE [a EXCEPT !.hvac_mode = HvacModeOf(r.val), !.hvac_action = HvacActionOf(r.val)]

\* mutant: mode and action, once decoded, are not decoded again
SetHvacState_FirstSticks(a, d) ==
    LET temp_pre == Get(d.state, "temp_pre", None)
        r == IF temp_pre # None THEN PyInt(temp_pre) ELSE Raise("TypeError")
    IN  IF r.ok /\ a.hvac_action = "unset"
        THEN [a EXCEPT !.hvac_mode = HvacModeOf(r.val), !.hvac_action = HvacActionOf(r.val)]
        ELSE a

SetHvacState(a, d) ==
    LET temp_pre == Get(d.state, "temp_pre", None) IN
    IF temp_pre # None
    THEN LET r == PyInt(temp_pre) IN
         IF r.ok
         THEN [a EXCEPT !.hvac_mode = HvacModeOf(r.val), !.hvac_action = HvacActionOf(r.val)]
         ELSE a
    ELSE a

\* mutant: a humidity that does not parse ends the update
UpdateState_AbortOnError(a, d) ==
    LET rh == Get(d.sensor_state, "rh", None)
        t == SetCurrentTemperature(a, d)
    IN  IF rh # None /\ ~PyFloat(rh).ok THEN t
        ELSE SetHvacState(SetTargetTemperature(SetCurrentHumidity(t, d), d), d)

UpdateState(a, d) ==
    SetHvacState(SetTargetTemperature(SetCurrentHumidity(SetCurrentTemperature(a, d), d), d), d)

----------------------------------------------------------------------------
(* Commands *)

NoParams == [t |-> "noparams"]

NoCall == [op |-> "none", mode |-> "", preset |-> "", temperature |-> None, cur |-> None]

\* the params dict of a command; a key the dict lacks holds Absent
Cmd(temp, prog) ==
    [cmd |-> 1, roomid |-> WundaId, temp |-> temp, prog |-> prog, locktt |-> 0, time |-> 0]

\* async_set_temperature up to its call of send_command
TemperatureParams(temperature) == Ok(Cmd(temperature, Absent))

\* mutant: HEAT with no current temperature computes from zero
HvacModeParams_DefaultZero(a, hvac_mode) ==
    CASE hvac_mode = "AUTO" -> Ok(Cmd(Absent, None))
      [] hvac_mode = "HEAT" ->
            LET c == Ceil(a.current_temperature) IN
            IF c.ok THEN Ok(Cmd(IntV(c.val + 1), Absent)) ELSE Ok(Cmd(IntV(1), Absent))
      [] hvac_mode = "OFF" -> Ok(Cmd(Float(0, 1), Absent))
      [] OTHER -> Raise("NotImplementedError")

\* async_set_hvac_mode up to its call of send_command
HvacModeParams(a, hvac_mode) ==
    CASE hvac_mode = "AUTO" -> Ok(Cmd(Absent, None))
      [] hvac_mode = "HEAT" ->
            LET c == Ceil(a.current_temperature) IN
            IF c.ok THEN Ok(Cmd(IntV(c.val + 1), Absent)) ELSE Raise(c.err)
      [] hvac_mode = "OFF" -> Ok(Cmd(Float(0, 1), Absent))
      [] OTHER -> Raise("NotImplementedError")

PresetField(preset_mode) ==
    CASE preset_mode = "reduced" -> "t_lo"
      [] preset_mode = "eco" -> "t_norm"
      [] preset_mode = "comfort" -> "t_hi"
      [] OTHER -> ""

\* float(state.get(field)) or float(sensor.state(field)): the name sensor is
\* bound nowhere, so evaluating the right operand raises NameError
PresetTemp(d, field) ==
    LET first == PyFloat(Get(d.state, field, None)) IN
    IF ~first.ok THEN first
    ELSE IF Truthy(first.val) THEN first
    ELSE Raise("NameError")

\* async_set_preset_mode up to its call of send_command
PresetParams(d, preset_mode) ==
    IF PresetField(preset_mode) = "" THEN Raise("NotImplementedError")
    ELSE LET t_preset == PresetTemp(d, PresetField(preset_mode)) IN
         IF t_preset.ok THEN Ok(Cmd(t_preset.val, Absent)) ELSE t_preset

\* what a failing send_command does to its awaiting caller
SendCommandResults == {"ok", "TransportError"}

\* a command coroutine runs from its start to the await of send_command, or
\* to the exception raised before it; one coroutine at a time (PARALLEL_UPDATES)
Begin(c, r) ==
    /\ pc \in {"idle", "done"}
    /\ call' = c
    /\ nrefresh' = 0
    /\ IF r.ok
       THEN pc' = "send" /\ params' = r.val /\ nsent' = 1 /\ outcome' = "none"
       ELSE pc' = "done" /\ params' = NoParams /\ nsent' = 0 /\ outcome' = r.err
    /\ UNCHANGED <<data, attrs>>

AsyncSetTemperature(temperature) ==
    Begin([NoCall EXCEPT !.op = "set_temperature", !.temperature = temperature,
                         !.cur = attrs.current_temperature],
          TemperatureParams(temperature))

AsyncSetHvacMode(hvac_mode) ==
    Begin([NoCall EXCEPT !.op = "set_hvac_mode", !.mode = hvac_mode,
                         !.cur = attrs.current_temperature],
          HvacModeParams(attrs, hvac_mode))

AsyncSetPresetMode(preset_mode) ==
    Begin([NoCall EXCEPT !.op = "set_preset_mode", !.preset = preset_mode,
                         !.cur = attrs.current_temperature],
          PresetParams(data, preset_mode))

\* mutant: the refresh is requested whatever send_command did
AfterSend_RefreshAlways(r) ==
    /\ pc = "send"
    /\ nrefresh' = nrefresh + 1
    /\ IF r = "ok"
       THEN pc' = "refresh" /\ outcome' = outcome
       ELSE pc' = "done" /\ outcome' = r
    /\ UNCHANGED <<data, attrs, call, params, nsent>>

\* the coroutine resumes from await send_command(...) with result r: an
\* exception propagates, a return is followed by async_request_refresh()
AfterSend(r) ==
    /\ pc = "send"
    /\ IF r = "ok"
       THEN pc' = "refresh" /\ nrefresh' = nrefresh + 1 /\ outcome' = outcome
       ELSE pc' = "done" /\ nrefresh' = nrefresh /\ outcome' = r
    /\ UNCHANGED <<data, attrs, call, params, nsent>>

\* the coroutine resumes from await async_request_refresh() and returns
AfterRefresh ==
    /\ pc = "refresh"
    /\ pc' = "done"
    /\ outcome' = "ok"
    /\ UNCHANGED <<data, attrs, call, params, nsent, nrefresh>>

\* the coordinator holds new data d and notifies the entity
HandleCoordinatorUpdate(d) ==
    /\ data' = d
    /\ attrs' = UpdateState(attrs, d)
    /\ UNCHANGED <<pc, call, params, nsent, nrefresh, outcome>>

\* the entity as __init__ leaves it when the coordinator holds d
Constructed(d) ==
    /\ data = d
    /\ attrs = UpdateState(ConstructorAttrs, d)
    /\ pc = "idle"
    /\ call = NoCall
    /\ params = NoParams
    /\ nsent = 0
    /\ nrefresh = 0
    /\ outcome = "none"

----------------------------------------------------------------------------
(* Coordinator data *)

NoState == [temp |-> Absent, temp_pre |-> Absent, t_lo |-> Absent, t_norm |-> Absent, t_hi |-> Absent]

NoSensorState == [temp |-> Absent, rh |-> Absent, t_lo |-> Absent, t_norm |-> Absent, t_hi |-> Absent]

NoTrv == [room_id |-> Absent, vtemp |-> Absent]

NoData == [state |-> NoState, sensor_state |-> NoSensorState, trvs |-> [i \in TrvIds |-> NoTrv]]

Malformed == StrV(<<"n", "/", "a">>)

----------------------------------------------------------------------------
(* Decoding of temp_pre: every flags value up to MaxFlags, as int and as text *)

MaxFlags == 255

FlagInputs ==
    {IntV(f) : f \in 0..MaxFlags} \cup {StrV(ToDigits(f)) : f \in 0..MaxFlags}
    \cup {Absent, None, Malformed, StrV(<<"1", "6", ".", "0">>), StrV(<<"-", "1", "2">>)}

DecodeData == {[NoData EXCEPT !.state.temp_pre = tp] : tp \in FlagInputs}

InitDecode == \E d \in DecodeData : Constructed(d)

UpdateDecode == \E d \in DecodeData : HandleCoordinatorUpdate(d)

NextDecode == UpdateDecode

SpecDecode == InitDecode /\ [][NextDecode]_vars

\* bit k of the natural number f
Bit(f, k) == (f \div (2 ^ k)) % 2 = 1

\* the mode and the action as the derivation rules state them, bit by bit
RuleMode(f) ==
    IF Bit(f, 4) /\ Bit(f, 2) THEN "OFF"
    ELSE IF Bit(f, 4) /\ ~Bit(f, 7) THEN "HEAT"
    ELSE "AUTO"

RuleAction(f) ==
    IF Bit(f, 7) /\ Bit(f, 5) THEN "PREHEATING"
    ELSE IF Bit(f, 5) THEN "HEATING"
    ELSE "OFF"

\* C1: an update with temp_pre = flags (a non-negative integer, as int or as
\* decimal text) leaves hvac_mode OFF if bits 0x10 and 0x04 are both set, else
\* HEAT if bit 0x10 is set and bit 0x80 is clear, else AUTO; OFF wins over HEAT
\* and no other bit matters.
C1_ModeByFirstMatch ==
    \A f \in 0..MaxFlags :
        data.state.temp_pre \in {IntV(f), StrV(ToDigits(f))} =>
            attrs.hvac_mode = RuleMode(f)

\* flags 0x34 as text: the OFF and the HEAT condition both match, OFF is shown
C1_Witness ==
    /\ data.state.temp_pre = StrV(<<"5", "2">>)
    /\ attrs.hvac_mode = "OFF"

\* C2: an update with temp_pre = flags leaves hvac_action PREHEATING if bits
\* 0x80 and 0x20 are both set, else HEATING if bit 0x20 is set, else OFF; no
\* other bit matters.
C2_ActionByFirstMatch ==
    \A f \in 0..MaxFlags :
        data.state.temp_pre \in {IntV(f), StrV(ToDigits(f))} =>
            attrs.hvac_action = RuleAction(f)

\* flags 0xB5: pre-start and demand with every mode bit set as well
C2_Witness ==
    /\ data.state.temp_pre = IntV(181)
    /\ attrs.hvac_action = "PREHEATING"

----------------------------------------------------------------------------
(* Current temperature: the sensor and two TRVs *)

TrvInputs ==
    {NoTrv,
     [room_id |-> StrV(<<"1">>), vtemp |-> StrV(<<"1", "9", ".", "0">>)],
     [room_id |-> IntV(1), vtemp |-> StrV(<<"2", "1", ".", "0">>)],
     [room_id |-> IntV(2), vtemp |-> StrV(<<"2", "3", ".", "0">>)],
     [room_id |-> StrV(<<"x">>), vtemp |-> StrV(<<"2", "3", ".", "0">>)],
     [room_id |-> StrV(<<"1">>), vtemp |-> StrV(<<"0">>)],
     [room_id |-> StrV(<<"1">>), vtemp |-> Malformed],
     [room_id |-> StrV(<<"1">>), vtemp |-> Absent]}

SensorTempInputs == {Absent, None, StrV(<<"2", "1", ".", "5">>), Malformed}

TempData ==
    {[NoData EXCEPT !.sensor_state.temp = st, !.trvs = trvs] :
        st \in SensorTempInputs, trvs \in [TrvIds -> TrvInputs]}

InitTemp == \E d \in TempData : Constructed(d)

UpdateTemp == \E d \in TempData : HandleCoordinatorUpdate(d)

NextTemp == UpdateTemp

SpecTemp == InitTemp /\ [][NextTemp]_vars

\* the field is there and parses as a number
Numeric(x) == x \notin {Absent, None} /\ PyFloat(x).ok

\* the TRVs of d that belong to the room and report a non-zero vtemp
UsableTrvs(d) ==
    {i \in TrvIds :
        LET trv == d.trvs[i] IN
        /\ trv.room_id \notin {Absent, None}
        /\ PyInt(trv.room_id).ok
        /\ PyInt(trv.room_id).val + MIN_ROOM_ID = WundaId
        /\ Numeric(trv.vtemp)
        /\ PyFloat(trv.vtemp).val # Float(0, 1)}

RECURSIVE VtempTotal(_, _)
VtempTotal(d, ids) ==
    IF ids = {} THEN Float(0, 1)
    ELSE LET i == CHOOSE j \in ids : TRUE
             v == PyFloat(d.trvs[i].vtemp).val
             rest == VtempTotal(d, ids \ {i})
         IN  Float(v.n * rest.d + rest.n * v.d, v.d * rest.d)

TrvMean(d) ==
    LET total == VtempTotal(d, UsableTrvs(d)) IN Float(total.n, total.d * Cardinality(UsableTrvs(d)))

SensorTempGiven(d) == d.sensor_state.temp \notin {Absent, None}

\* C3 as stated: whenever the sensor temp is absent or not numeric and some
\* TRV is usable, current_temperature is the TRV mean.
C3_AsStated ==
    (~Numeric(data.sensor_state.temp) /\ UsableTrvs(data) # {}) =>
        attrs.current_temperature = TrvMean(data)

\* C3, amended: a numeric sensor temp is shown whatever the TRVs say; only an
\* absent sensor temp gives the mean of the usable TRVs; a sensor temp that is
\* present and not numeric, or no usable TRV, leaves the previous value.
C3_FallbackChain ==
    /\ [](Numeric(data.sensor_state.temp) =>
            attrs.current_temperature = PyFloat(data.sensor_state.temp).val)
    /\ []((~SensorTempGiven(data) /\ UsableTrvs(data) # {}) =>
            attrs.current_temperature = TrvMean(data))
    /\ [][((SensorTempGiven(data') /\ ~Numeric(data'.sensor_state.temp))
            \/ (~SensorTempGiven(data') /\ UsableTrvs(data') = {})) =>
                attrs'.current_temperature = attrs.current_temperature]_vars

\* the sensor temp does not parse, both TRVs are usable, and the 21.5 of an
\* earlier update is still shown
C3_Witness ==
    /\ data.sensor_state.temp = Malformed
    /\ UsableTrvs(data) = TrvIds
    /\ attrs.current_temperature = Float(43, 2)

----------------------------------------------------------------------------
(* All four attributes: present, missing and malformed fields *)

FieldData ==
    {[NoData EXCEPT !.sensor_state.temp = st, !.sensor_state.rh = rh, !.state.temp = temp,
                    !.state.temp_pre = tp, !.trvs[MIN_TRV_ID] = trv] :
        st \in {Absent, StrV(<<"2", "1", ".", "5">>), Malformed},
        rh \in {Absent, StrV(<<"4", "5">>), Malformed},
        temp \in {Absent, StrV(<<"2", "0">>), Malformed},
        tp \in {Absent, Malformed, StrV(<<"1", "6">>), IntV(160)},
        trv \in {NoTrv, [room_id |-> StrV(<<"1">>), vtemp |-> StrV(<<"1", "9", ".", "0">>)]}}

InitFields == \E d \in FieldData : Constructed(d)

UpdateFields == \E d \in FieldData : HandleCoordinatorUpdate(d)

NextFields == UpdateFields

SpecFields == InitFields /\ [][NextFields]_vars

\* the field is there and parses as an integer
Integral(x) == x \notin {Absent, None} /\ PyInt(x).ok

\* what an update with data d makes of the value old of one attribute
Decoded(valid, new, old) == IF valid THEN new ELSE old

HumidityStep ==
    attrs'.current_humidity =
        Decoded(Numeric(data'.sensor_state.rh), PyFloat(data'.sensor_state.rh).val,
                attrs.current_humidity)

TargetStep ==
    attrs'.target_temperature =
        Decoded(Numeric(data'.state.temp), PyFloat(data'.state.temp).val, attrs.target_temperature)

HvacStep ==
    /\ attrs'.hvac_mode =
        Decoded(Integral(data'.state.temp_pre), RuleMode(PyInt(data'.state.temp_pre).val),
                attrs.hvac_mode)
    /\ attrs'.hvac_action =
        Decoded(Integral(data'.state.temp_pre), RuleAction(PyInt(data'.state.temp_pre).val),
                attrs.hvac_action)

\* C4 as stated: each attribute takes the value of its own field when the
\* field is numeric and keeps its last value when the field is missing or
\* malformed, the current temperature's field being the sensor temp.
C4_AsStated ==
    [][/\ attrs'.current_temperature =
            Decoded(Numeric(data'.sensor_state.temp), PyFloat(data'.sensor_state.temp).val,
                    attrs.current_temperature)
       /\ HumidityStep
       /\ TargetStep
       /\ HvacStep]_vars

\* C4, amended: as stated, except that with the sensor temp missing the
\* current temperature becomes the mean of the usable TRVs when there is one,
\* and keeps its last value only when there is none.
C4_IndependentDecoding ==
    [][/\ attrs'.current_temperature =
            IF SensorTempGiven(data')
            THEN Decoded(Numeric(data'.sensor_state.temp), PyFloat(data'.sensor_state.temp).val,
                         attrs.current_temperature)
            ELSE Decoded(UsableTrvs(data') # {}, TrvMean(data'), attrs.current_temperature)
       /\ HumidityStep
       /\ TargetStep
       /\ HvacStep]_vars

\* rh is "n/a": the humidity of an earlier update is still shown, target
\* temperature and mode/action show the values of this update
C4_Witness ==
    /\ data.sensor_state.rh = Malformed
    /\ attrs.current_humidity = Float(45, 1)
    /\ data.state.temp = StrV(<<"2", "0">>)
    /\ attrs.target_temperature = Float(20, 1)
    /\ data.state.temp_pre = IntV(160)
    /\ attrs.hvac_action = "PREHEATING"

\* the view an entity constructed on data d shows
FreshView(d) == UpdateState(ConstructorAttrs, d)

\* every attribute has a usable source in d
AllUsable(d) ==
    /\ Numeric(d.sensor_state.temp) \/ (~SensorTempGiven(d) /\ UsableTrvs(d) # {})
    /\ Numeric(d.sensor_state.rh)
    /\ Numeric(d.state.temp)
    /\ Integral(d.state.temp_pre)

C9_AsStated ==
    /\ attrs.hvac_mode \in {"OFF", "AUTO", "HEAT"}
    /\ attrs.hvac_action \in {"OFF", "HEATING", "PREHEATING"}

\* C9, amended: hvac_mode is OFF, AUTO or HEAT; hvac_action is OFF, HEATING,
\* PREHEATING or not set, and it is set whenever the latest data carry an
\* integer temp_pre.
C9_ModeAndActionRange ==
    /\ attrs.hvac_mode \in {"OFF", "AUTO", "HEAT"}
    /\ attrs.hvac_action \in {"OFF", "HEATING", "PREHEATING", "unset"}
    /\ Integral(data.state.temp_pre) => attrs.hvac_action # "unset"

\* two updates have been handled (a humidity is shown that the latest data
\* lack), temp_pre did not parse, and the action is still not set
C9_Witness ==
    /\ data.state.temp_pre = Malformed
    /\ data.sensor_state.rh = Absent
    /\ attrs.current_humidity = Float(45, 1)
    /\ attrs.target_temperature = Float(20, 1)
    /\ attrs.hvac_mode = "AUTO"
    /\ attrs.hvac_action = "unset"

----------------------------------------------------------------------------
(* Commands interleaved with updates *)

PresetInputs ==
    {[state |-> [t_lo |-> Absent, t_norm |-> Absent, t_hi |-> Absent],
      sensor |-> [t_lo |-> Absent, t_norm |-> Absent, t_hi |-> Absent]],
     [state |-> [t_lo |-> StrV(<<"1", "6", ".", "0">>), t_norm |-> StrV(<<"1", "8", ".", "5">>),
                 t_hi |-> StrV(<<"2", "1", ".", "0">>)],
      sensor |-> [t_lo |-> Absent, t_norm |-> Absent, t_hi |-> Absent]],
     [state |-> [t_lo |-> Absent, t_norm |-> Absent, t_hi |-> Absent],
      sensor |-> [t_lo |-> StrV(<<"1", "5", ".", "0">>), t_norm |-> StrV(<<"1", "8", ".", "5">>),
                  t_hi |-> StrV(<<"2", "2", ".", "0">>)]],
     [state |-> [t_lo |-> StrV(<<"0">>), t_norm |-> Malformed, t_hi |-> StrV(<<"2", "1", ".", "0">>)],
      sensor |-> [t_lo |-> StrV(<<"1", "5", ".", "0">>), t_norm |-> StrV(<<"1", "8", ".", "5">>),
                  t_hi |-> StrV(<<"2", "2", ".", "0">>)]]}

CommandData ==
    {[NoData EXCEPT !.sensor_state.temp = st, !.state.temp_pre = tp,
                    !.state.t_lo = p.state.t_lo, !.state.t_norm = p.state.t_norm,
                    !.state.t_hi = p.state.t_hi,
                    !.sensor_state.t_lo = p.sensor.t_lo, !.sensor_state.t_norm = p.sensor.t_norm,
                    !.sensor_state.t_hi = p.sensor.t_hi] :
        st \in {Absent, StrV(<<"1", "9", ".", "3">>), StrV(<<"2", "0">>)},
        tp \in {Absent, Malformed, StrV(<<"1", "6">>), IntV(160)},
        p \in PresetInputs}

TemperatureInputs == {Float(45, 2), IntV(20)}

HvacModeInputs == {"AUTO", "HEAT", "OFF", "COOL"}

PresetModeInputs == {"reduced", "eco", "comfort", "boost"}

Init == \E d \in CommandData : Constructed(d)

Update == \E d \in CommandData : HandleCoordinatorUpdate(d)

SetTemperature == \E t \in TemperatureInputs : AsyncSetTemperature(t)

SetHvacMode == \E m \in HvacModeInputs : AsyncSetHvacMode(m)

SetPresetMode == \E p \in PresetModeInputs : AsyncSetPresetMode(p)

SendCompletes == \E r \in SendCommandResults : AfterSend(r)

Next ==
    \/ Update
    \/ SetTemperature
    \/ SetHvacMode
    \/ SetPresetMode
    \/ SendCompletes
    \/ AfterRefresh

Spec == Init /\ [][Next]_vars


\* the least integer not below the float x
LeastIntegerAtLeast(x) == CHOOSE k \in -1..100 : k * x.d >= x.n /\ (k - 1) * x.d < x.n

HeatCall == call.op = "set_hvac_mode" /\ call.mode = "HEAT"

\* C6: setMode(HEAT) hands send_command exactly one command, {cmd 1, roomid,
\* temp ceil(current_temperature) + 1, locktt 0, time 0}, computed from the
\* current_temperature read when the call was made; with no current
\* temperature the call fails and neither a command nor a refresh is issued.
C6_HeatFromCurrentTemperature ==
    HeatCall =>
        IF call.cur = None
        THEN /\ pc = "done"
             /\ outcome \notin {"none", "ok"}
             /\ params = NoParams
             /\ nsent = 0
             /\ nrefresh = 0
        ELSE /\ nsent = 1
             /\ params = [cmd |-> 1, roomid |-> WundaId,
                          temp |-> IntV(LeastIntegerAtLeast(call.cur) + 1),
                          prog |-> Absent, locktt |-> 0, time |-> 0]

\* HEAT was called at 19.3 and asks for 21; an update has since moved the
\* current temperature while the command is in flight
C6_Witness ==
    /\ HeatCall
    /\ pc = "send"
    /\ call.cur = Float(193, 10)
    /\ params.temp = IntV(21)
    /\ attrs.current_temperature = Float(20, 1)

\* a command coroutine starts (and runs to its first await or its exception)
BeginStep ==
    /\ pc \in {"idle", "done"}
    /\ pc' \in {"send", "done"}
    /\ data' = data
    /\ attrs' = attrs
    /\ nrefresh' = 0

\* the preset temperature the claim resolves: the room state's field, else
\* the sensor state's
PresetSource(d, field) ==
    IF Numeric(d.state[field]) /\ PyFloat(d.state[field]).val # Float(0, 1) THEN d.state[field]
    ELSE IF Numeric(d.sensor_state[field]) THEN d.sensor_state[field]
    ELSE None

\* C7: setPreset(reduced | eco | comfort) submits the temperature of the room
\* state's t_lo | t_norm | t_hi, or of the sensor state's when the room state
\* has no usable one, as a set-target-temperature command; it fails with a
\* value error (the ValueError or TypeError of the conversion) when neither
\* has one, and with the unsupported-preset error for any other name, no
\* command being submitted in either failure.
C7_PresetResolution ==
    [][(BeginStep /\ call'.op = "set_preset_mode") =>
        IF call'.preset \in {"reduced", "eco", "comfort"}
        THEN LET src == PresetSource(data, PresetField(call'.preset)) IN
             IF src # None
             THEN /\ pc' = "send"
                  /\ nsent' = 1
                  /\ params' = [cmd |-> 1, roomid |-> WundaId, temp |-> PyFloat(src).val,
                                prog |-> Absent, locktt |-> 0, time |-> 0]
             ELSE pc' = "done" /\ outcome' \in {"ValueError", "TypeError"} /\ nsent' = 0
        ELSE pc' = "done" /\ outcome' = "NotImplementedError" /\ nsent' = 0]_vars

Failures == {"NotImplementedError", "TypeError", "ValueError", "NameError", "TransportError"}

\* C8: a call makes at most one send_command and at most one refresh request;
\* the refresh is requested only once send_command has returned, and a call
\* that succeeds has made both; a call that fails ends with its error, with
\* no refresh and no second send_command, and an unsupported mode or preset
\* or a missing precondition fails before any command is sent.
C8_RefreshOnlyAfterSuccess ==
    /\ nsent \in {0, 1}
    /\ nrefresh \in {0, 1}
    /\ pc = "idle" => (nsent = 0 /\ nrefresh = 0 /\ outcome = "none")
    /\ pc = "send" => (nsent = 1 /\ nrefresh = 0 /\ outcome = "none")
    /\ pc = "refresh" => (nsent = 1 /\ nrefresh = 1 /\ outcome = "none")
    /\ pc = "done" => \/ outcome = "ok" /\ nsent = 1 /\ nrefresh = 1
                      \/ outcome = "TransportError" /\ nsent = 1 /\ nrefresh = 0
                      \/ outcome \in Failures \ {"TransportError"} /\ nsent = 0 /\ nrefresh = 0
    /\ (call.op = "set_hvac_mode" /\ call.mode \notin {"AUTO", "HEAT", "OFF"}) =>
            (outcome = "NotImplementedError" /\ nsent = 0)
    /\ (call.op = "set_preset_mode" /\ call.preset \notin {"reduced", "eco", "comfort"}) =>
            (outcome = "NotImplementedError" /\ nsent = 0)
    /\ (HeatCall /\ call.cur = None) => (outcome \in Failures /\ nsent = 0)

\* the transport failed a set-temperature command: sent once, no refresh
C8_Witness ==
    /\ call.op = "set_temperature"
    /\ pc = "done"
    /\ outcome = "TransportError"
    /\ nsent = 1
    /\ nrefresh = 0

\* a step of a command coroutine
CommandStep == <<pc, call, params, nsent, nrefresh, outcome>>' # <<pc, call, params, nsent, nrefresh, outcome>>

\* C10: once hvac_action is set, (hvac_mode, hvac_action) is the decoding of
\* one flags value, so PREHEATING never goes with HEAT; before that the mode
\* is the constructor's AUTO; no step of a command writes mode or action.
C10_ModeAndActionTogether ==
    /\ [](IF attrs.hvac_action = "unset" THEN attrs.hvac_mode = "AUTO"
          ELSE \E f \in 0..MaxFlags :
                  attrs.hvac_mode = RuleMode(f) /\ attrs.hvac_action = RuleAction(f))
    /\ [](~(attrs.hvac_action = "PREHEATING" /\ attrs.hvac_mode = "HEAT"))
    /\ [][CommandStep =>
            (attrs'.hvac_mode = attrs.hvac_mode /\ attrs'.hvac_action = attrs.hvac_action)]_vars

\* HEAT with action OFF, decoded from flags 0x10, has outlived an update whose
\* temp_pre did not parse and a finished command
C10_Witness ==
    /\ data.state.temp_pre = Malformed
    /\ attrs.hvac_mode = "HEAT"
    /\ attrs.hvac_action = "OFF"
    /\ pc = "done"
    /\ outcome = "ok"

====
